---- MODULE Spec2Model ----
(***************************************************************************)
(* Model of the LLaVA local client (src/app.py): a FastAPI relay with five *)
(* handlers (root, health_check, analyze_image, embed_image,               *)
(* calculate_cosine_similarity) that forward to one upstream server with   *)
(* the blocking `requests` library.  Every handler is an `async def`, so   *)
(* all of them run on the single event loop of the process.                *)
(***************************************************************************)
EXTENDS Integers, Sequences, FiniteSets, TLC

\* ------------------------------------------------------------------------
\* Bounds and program constants
\* ------------------------------------------------------------------------
NumRequests == 2

HealthTimeout == 5

ForwardTimeout == 60

Requests == 1..NumRequests

Kinds == {"root", "health", "analyze", "embed", "cosine"}

ForwardKinds == {"analyze", "embed", "cosine"}

\* ------------------------------------------------------------------------
\* Declared content types, as character sequences
\* ------------------------------------------------------------------------
ImagePrefix == <<"i", "m", "a", "g", "e", "/">>

CT_png == <<"i", "m", "a", "g", "e", "/", "p", "n", "g">>

CT_text == <<"t", "e", "x", "t", "/", "p", "l", "a", "i", "n">>

CT_bare == <<"i", "m", "a", "g", "e">>

\* an upload part without a Content-Type header: UploadFile.content_type is None
CT_none == <<"None">>

ContentTypes == {CT_png, CT_text, CT_bare, CT_none}

StartsWith(s, p) == Len(s) >= Len(p) /\ SubSeq(s, 1, Len(p)) = p

NumFiles(kind) ==
    CASE kind = "cosine" -> 2
      [] kind \in {"analyze", "embed"} -> 1
      [] OTHER -> 0

FileLists(kind) == [1..NumFiles(kind) -> ContentTypes]

\* ------------------------------------------------------------------------
\* Exceptions
\* ------------------------------------------------------------------------
NoExc == [cls |-> "", status_code |-> 0, detail |-> <<>>]

Exc(cls, msg) == [cls |-> cls, status_code |-> 0, detail |-> <<msg>>]

HTTPException(status, detail) ==
    [cls |-> "HTTPException", status_code |-> status, detail |-> detail]

\* direct base classes (requests.exceptions, starlette, builtins)
Bases(cls) ==
    CASE cls = "ConnectTimeout" -> {"ConnectionError", "Timeout"}
      [] cls = "ReadTimeout" -> {"Timeout"}
      [] cls = "JSONDecodeError" -> {"InvalidJSONError"}
      [] cls \in {"ConnectionError", "Timeout", "HTTPError", "InvalidJSONError"}
            -> {"RequestException"}
      [] cls \in {"RequestException", "HTTPException", "AttributeError"}
            -> {"Exception"}
      [] OTHER -> {}

RECURSIVE IsInstance(_, _)
IsInstance(cls, target) ==
    \/ cls = target
    \/ \E b \in Bases(cls) : IsInstance(b, target)

\* str(e)
Str(e) ==
    IF e.cls = "HTTPException"
    THEN <<ToString(e.status_code), ": ">> \o e.detail
    ELSE e.detail

\* ------------------------------------------------------------------------
\* Upstream bodies and response.json()
\* ------------------------------------------------------------------------
BodyWithField == "{\"response\": \"a cat\", \"embedding_shape\": \"512\", \"cosine_similarity\": \"0.9\"}"

BodyNoField == "{\"detail\": \"boom\"}"

BodyArray == "[1, 2]"

BodyScalar == "0.87"

BodyHtml == "<html>oops</html>"

NoBody == [type |-> "none", items |-> {}]

JsonDecodable(text) == text \in {BodyWithField, BodyNoField, BodyArray, BodyScalar}

\* response.json(): the decoded Python value (type and items)
JsonDecode(text) ==
    CASE text = BodyWithField ->
            [type |-> "dict",
             items |-> {<<"response", "a cat">>, <<"embedding_shape", "512">>,
                        <<"cosine_similarity", "0.9">>}]
      [] text = BodyNoField ->
            [type |-> "dict", items |-> {<<"detail", "boom">>}]
      [] text = BodyArray ->
            [type |-> "list", items |-> {<<"0", "1">>, <<"1", "2">>}]
      [] text = BodyScalar ->
            [type |-> "float", items |-> {<<"", "0.87">>}]
      [] OTHER -> NoBody

\* result.get(key, 'N/A') in the print after decoding: only a dict has .get
HasGet(value) == value.type = "dict"

\* ------------------------------------------------------------------------
\* The outbound call: requests.get / requests.post with a timeout
\* ------------------------------------------------------------------------
\* final replies the upstream may give: <<status, body text>>
Replies ==
    {<<200, BodyWithField>>, <<200, BodyNoField>>, <<200, BodyArray>>,
     <<200, BodyScalar>>, <<200, BodyHtml>>, <<201, BodyWithField>>,
     <<304, BodyNoField>>, <<404, BodyNoField>>, <<404, BodyHtml>>,
     <<503, BodyHtml>>}

\* how long the connection and the wait for the reply take
Times == {1, HealthTimeout + 1, ForwardTimeout + 1}

Envs ==
    {[refused |-> b, connectTime |-> c, waitTime |-> w, status |-> rp[1], text |-> rp[2]] :
        b \in BOOLEAN, c \in Times, w \in Times, rp \in Replies}

NoOut == [exc |-> "none", status |-> 0, text |-> ""]

\* outcome of one call with the given timeout in the given environment
Transport(timeout, env) ==
    IF env.refused
    THEN [exc |-> "ConnectionError", status |-> 0, text |-> ""]
    ELSE IF env.connectTime > timeout
    THEN [exc |-> "ConnectTimeout", status |-> 0, text |-> ""]
    ELSE IF env.waitTime > timeout
    THEN [exc |-> "ReadTimeout", status |-> 0, text |-> ""]
    ELSE [exc |-> "", status |-> env.status, text |-> env.text]

TransportMessage(cls) ==
    CASE cls = "ConnectionError" -> "Connection refused"
      [] cls = "ConnectTimeout" -> "Connection to upstream timed out"
      [] cls = "ReadTimeout" -> "Read timed out"
      [] OTHER -> ""

HealthOutcomes == {Transport(HealthTimeout, env) : env \in Envs}

ForwardOutcomes == {Transport(ForwardTimeout, env) : env \in Envs}

\* variant: only 5xx counts as an error status
RaisesForStatus_ServerOnly(status) == 500 <= status /\ status < 600

\* response.raise_for_status(): raises HTTPError for 4xx and 5xx only
RaisesForStatus(status) == 400 <= status /\ status < 600

\* ------------------------------------------------------------------------
\* Responses delivered to the caller
\* ------------------------------------------------------------------------
NoResp == [status |-> 0, body |-> NoBody, detail |-> <<>>,
           local_status |-> "", colab_status |-> ""]

\* a value returned by a handler: FastAPI sends 200 with the value as JSON
JsonResponse(value) == [status |-> 200, body |-> value, detail |-> <<>>,
                        local_status |-> "", colab_status |-> ""]

\* an HTTPException leaving a handler: FastAPI sends its status and detail
ErrorResponse(e) == [status |-> e.status_code, body |-> NoBody, detail |-> e.detail,
                     local_status |-> "", colab_status |-> ""]

\* any other exception leaving a handler
Unhandled(e) == [status |-> 500, body |-> NoBody, detail |-> <<"Internal Server Error">>,
                 local_status |-> "", colab_status |-> ""]

CannotConnect == "Cannot connect to Colab server at https://kenna-explosible-nonmonistically.ngrok-free.dev. Make sure the server is running and COLAB_SERVER_URL is correct."

TimedOut == "Request to Colab server timed out. The model might be loading."

\* ------------------------------------------------------------------------
\* Handler bodies
\* ------------------------------------------------------------------------
MustBeImage(kind, i) ==
    IF kind = "cosine"
    THEN (IF i = 1 THEN "File1 must be an image" ELSE "File2 must be an image")
    ELSE "File must be an image"

\* the content-type checks at the top of the try block, in order
RECURSIVE ValidateFrom(_, _, _)
ValidateFrom(kind, fs, i) ==
    IF i > Len(fs) THEN NoExc
    ELSE IF fs[i] = CT_none
    THEN Exc("AttributeError", "'NoneType' object has no attribute 'startswith'")
    ELSE IF ~StartsWith(fs[i], ImagePrefix)
    THEN HTTPException(400, <<MustBeImage(kind, i)>>)
    ELSE ValidateFrom(kind, fs, i + 1)

\* variant: only the first file's content type is checked
ValidateFiles_FirstOnly(kind, fs) ==
    IF Len(fs) = 0 THEN NoExc ELSE ValidateFrom(kind, <<fs[1]>>, 1)

ValidateFiles(kind, fs) == ValidateFrom(kind, fs, 1)

\* variant: the except Timeout clause is missing
ForwardExcept_NoTimeout(e, out) ==
    IF IsInstance(e.cls, "ConnectionError")
    THEN ErrorResponse(HTTPException(503, <<CannotConnect>>))
    ELSE IF IsInstance(e.cls, "HTTPError")
    THEN ErrorResponse(HTTPException(out.status, <<"Colab server error: ", out.text>>))
    ELSE IF IsInstance(e.cls, "Exception")
    THEN ErrorResponse(HTTPException(500, <<"Error processing request: ">> \o Str(e)))
    ELSE Unhandled(e)

\* variant: the except ConnectionError clause is missing
ForwardExcept_NoConnect(e, out) ==
    IF IsInstance(e.cls, "Timeout")
    THEN ErrorResponse(HTTPException(504, <<TimedOut>>))
    ELSE IF IsInstance(e.cls, "HTTPError")
    THEN ErrorResponse(HTTPException(out.status, <<"Colab server error: ", out.text>>))
    ELSE IF IsInstance(e.cls, "Exception")
    THEN ErrorResponse(HTTPException(500, <<"Error processing request: ">> \o Str(e)))
    ELSE Unhandled(e)

\* the except clauses of the three forwarding handlers, first match wins
ForwardExcept(e, out) ==
    IF IsInstance(e.cls, "ConnectionError")
    THEN ErrorResponse(HTTPException(503, <<CannotConnect>>))
    ELSE IF IsInstance(e.cls, "Timeout")
    THEN ErrorResponse(HTTPException(504, <<TimedOut>>))
    ELSE IF IsInstance(e.cls, "HTTPError")
    THEN ErrorResponse(HTTPException(out.status, <<"Colab server error: ", out.text>>))
    ELSE IF IsInstance(e.cls, "Exception")
    THEN ErrorResponse(HTTPException(500, <<"Error processing request: ">> \o Str(e)))
    ELSE Unhandled(e)

\* what the statements after requests.post raise, if anything
AfterPost(kind, out) ==
    IF out.exc # ""
    THEN Exc(out.exc, TransportMessage(out.exc))
    ELSE IF RaisesForStatus(out.status)
    THEN Exc("HTTPError", "Error for url")
    ELSE IF ~JsonDecodable(out.text)
    THEN Exc("JSONDecodeError", "Expecting value")
    ELSE IF ~HasGet(JsonDecode(out.text))
    THEN Exc("AttributeError", "object has no attribute 'get'")
    ELSE NoExc

ForwardRespond(kind, out) ==
    LET e == AfterPost(kind, out)
    IN  IF e = NoExc
        THEN JsonResponse(JsonDecode(out.text))
        ELSE ForwardExcept(e, out)

\* variant: health_check catches ConnectionError only
HealthExcept_ConnOnly(e) ==
    IF IsInstance(e.cls, "ConnectionError")
    THEN [status |-> 200, body |-> NoBody,
          detail |-> Str(e) \o <<"Make sure to update COLAB_SERVER_URL with your ngrok URL">>,
          local_status |-> "healthy", colab_status |-> "disconnected"]
    ELSE Unhandled(e)

\* the except clause of health_check
HealthExcept(e) ==
    IF IsInstance(e.cls, "RequestException")
    THEN [status |-> 200, body |-> NoBody,
          detail |-> Str(e) \o <<"Make sure to update COLAB_SERVER_URL with your ngrok URL">>,
          local_status |-> "healthy", colab_status |-> "disconnected"]
    ELSE Unhandled(e)

\* variant: health_check calls raise_for_status before decoding
AfterGet_StatusChecked(out) ==
    IF out.exc # ""
    THEN Exc(out.exc, TransportMessage(out.exc))
    ELSE IF RaisesForStatus(out.status)
    THEN Exc("HTTPError", "Error for url")
    ELSE IF ~JsonDecodable(out.text)
    THEN Exc("JSONDecodeError", "Expecting value")
    ELSE NoExc

\* what requests.get and response.json() raise in health_check, if anything
AfterGet(out) ==
    IF out.exc # ""
    THEN Exc(out.exc, TransportMessage(out.exc))
    ELSE IF ~JsonDecodable(out.text)
    THEN Exc("JSONDecodeError", "Expecting value")
    ELSE NoExc

HealthRespond(out) ==
    LET e == AfterGet(out)
    IN  IF e = NoExc
        THEN [status |-> 200, body |-> JsonDecode(out.text), detail |-> <<>>,
              local_status |-> "healthy", colab_status |-> "connected"]
        ELSE HealthExcept(e)

RootRespond ==
    JsonResponse([type |-> "dict",
                  items |-> {<<"message", "LLaVA Local Client">>,
                             <<"status", "running">>,
                             <<"colab_server", "https://kenna-explosible-nonmonistically.ngrok-free.dev">>,
                             <<"endpoints", "analyze,embed,cosine_sim,health">>}])

\* ------------------------------------------------------------------------
\* State
\* ------------------------------------------------------------------------
VARIABLES pc, kind, files, reads, calls, up, resp, loop

vars == <<pc, kind, files, reads, calls, up, resp, loop>>

Init ==
    /\ pc = [r \in Requests |-> "idle"]
    /\ kind = [r \in Requests |-> "root"]
    /\ files = [r \in Requests |-> <<>>]
    /\ reads = [r \in Requests |-> 0]
    /\ calls = [r \in Requests |-> 0]
    /\ up = [r \in Requests |-> NoOut]
    /\ resp = [r \in Requests |-> NoResp]
    /\ loop = 0

\* a request reaches the server; its handler is scheduled as a task
Arrive(r, k, fs) ==
    /\ pc[r] = "idle"
    /\ pc' = [pc EXCEPT ![r] = "queued"]
    /\ kind' = [kind EXCEPT ![r] = k]
    /\ files' = [files EXCEPT ![r] = fs]
    /\ UNCHANGED <<reads, calls, up, resp, loop>>

\* root(): no await, no outbound call
Root(r) ==
    /\ pc[r] = "queued" /\ kind[r] = "root" /\ loop = 0
    /\ resp' = [resp EXCEPT ![r] = RootRespond]
    /\ pc' = [pc EXCEPT ![r] = "done"]
    /\ UNCHANGED <<kind, files, reads, calls, up, loop>>

\* health_check() enters requests.get, which blocks the event-loop thread
HealthProbe(r) ==
    /\ pc[r] = "queued" /\ kind[r] = "health" /\ loop = 0
    /\ calls' = [calls EXCEPT ![r] = @ + 1]
    /\ pc' = [pc EXCEPT ![r] = "upstream"]
    /\ loop' = r
    /\ UNCHANGED <<kind, files, reads, up, resp>>

\* requests.get returns or raises; the handler responds
HealthReturn(r, out) ==
    /\ pc[r] = "upstream" /\ kind[r] = "health" /\ loop = r
    /\ up' = [up EXCEPT ![r] = out]
    /\ resp' = [resp EXCEPT ![r] = HealthRespond(out)]
    /\ pc' = [pc EXCEPT ![r] = "done"]
    /\ loop' = 0
    /\ UNCHANGED <<kind, files, reads, calls>>

\* a forwarding handler starts: the content-type checks
Validate(r) ==
    /\ pc[r] = "queued" /\ kind[r] \in ForwardKinds /\ loop = 0
    /\ LET e == ValidateFiles(kind[r], files[r])
       IN  IF e = NoExc
           THEN /\ pc' = [pc EXCEPT ![r] = "reading"]
                /\ loop' = r
                /\ UNCHANGED resp
           ELSE /\ pc' = [pc EXCEPT ![r] = "done"]
                /\ resp' = [resp EXCEPT ![r] = ForwardExcept(e, NoOut)]
                /\ UNCHANGED loop
    /\ UNCHANGED <<kind, files, reads, calls, up>>

\* await file.read() on an in-memory upload: completes without suspending
ReadFile(r) ==
    /\ pc[r] = "reading" /\ loop = r /\ reads[r] < NumFiles(kind[r])
    /\ reads' = [reads EXCEPT ![r] = @ + 1]
    /\ UNCHANGED <<pc, kind, files, calls, up, resp, loop>>

\* await file.read() on an upload spooled to disk: the task suspends
ReadSuspend(r) ==
    /\ pc[r] = "reading" /\ loop = r /\ reads[r] < NumFiles(kind[r])
    /\ pc' = [pc EXCEPT ![r] = "suspended"]
    /\ loop' = 0
    /\ UNCHANGED <<kind, files, reads, calls, up, resp>>

ReadResume(r) ==
    /\ pc[r] = "suspended" /\ loop = 0
    /\ reads' = [reads EXCEPT ![r] = @ + 1]
    /\ pc' = [pc EXCEPT ![r] = "reading"]
    /\ loop' = r
    /\ UNCHANGED <<kind, files, calls, up, resp>>

\* requests.post is entered; the thread blocks until it returns or raises
Post(r) ==
    /\ pc[r] = "reading" /\ loop = r /\ reads[r] = NumFiles(kind[r])
    /\ calls' = [calls EXCEPT ![r] = @ + 1]
    /\ pc' = [pc EXCEPT ![r] = "upstream"]
    /\ UNCHANGED <<kind, files, reads, up, resp, loop>>

\* variant: a failed call is retried once before the handler responds
PostReturn_Retry(r, out) ==
    /\ pc[r] = "upstream" /\ kind[r] \in ForwardKinds /\ loop = r
    /\ IF AfterPost(kind[r], out) # NoExc /\ calls[r] < 2
       THEN /\ calls' = [calls EXCEPT ![r] = @ + 1]
            /\ UNCHANGED <<pc, kind, files, reads, up, resp, loop>>
       ELSE /\ up' = [up EXCEPT ![r] = out]
            /\ resp' = [resp EXCEPT ![r] = ForwardRespond(kind[r], out)]
            /\ pc' = [pc EXCEPT ![r] = "done"]
            /\ loop' = 0
            /\ UNCHANGED <<kind, files, reads, calls>>

\* requests.post returns or raises; the handler responds
PostReturn(r, out) ==
    /\ pc[r] = "upstream" /\ kind[r] \in ForwardKinds /\ loop = r
    /\ up' = [up EXCEPT ![r] = out]
    /\ resp' = [resp EXCEPT ![r] = ForwardRespond(kind[r], out)]
    /\ pc' = [pc EXCEPT ![r] = "done"]
    /\ loop' = 0
    /\ UNCHANGED <<kind, files, reads, calls>>

\* the first step of a queued request's handler
Begin(r) == Root(r) \/ HealthProbe(r) \/ Validate(r)

Next ==
    \/ \E r \in Requests, k \in Kinds : \E fs \in FileLists(k) : Arrive(r, k, fs)
    \/ \E r \in Requests : Root(r)
    \/ \E r \in Requests : HealthProbe(r)
    \/ \E r \in Requests, out \in HealthOutcomes : HealthReturn(r, out)
    \/ \E r \in Requests : Validate(r)
    \/ \E r \in Requests : ReadFile(r)
    \/ \E r \in Requests : ReadSuspend(r)
    \/ \E r \in Requests : ReadResume(r)
    \/ \E r \in Requests : Post(r)
    \/ \E r \in Requests, out \in ForwardOutcomes : PostReturn(r, out)

Spec == Init /\ [][Next]_vars

\* ------------------------------------------------------------------------
\* Properties
\* ------------------------------------------------------------------------
Done(r) == pc[r] = "done"

Forward(r) == pc[r] # "idle" /\ kind[r] \in ForwardKinds

\* file i of request r declares a content type that does not begin with "image/"
NonImage(r, i) == files[r][i] # CT_none /\ ~StartsWith(files[r][i], ImagePrefix)

HasNonImage(r) == \E i \in DOMAIN files[r] : NonImage(r, i)

ValidFiles(r) ==
    \A i \in DOMAIN files[r] : files[r][i] # CT_none /\ StartsWith(files[r][i], ImagePrefix)

Contains(detail, str) == \E i \in DOMAIN detail : detail[i] = str

Is2xx(status) == 200 <= status /\ status < 300

GotReply(r) == up[r].exc = ""

\* C1: a forwarding request with a declared non-image content type is answered
\* with status 400 and a message naming an offending file.
C1_NonImageIs400 ==
    \A r \in Requests :
        (Done(r) /\ Forward(r) /\ HasNonImage(r)) =>
            /\ resp[r].status = 400
            /\ \E i \in DOMAIN files[r] :
                  NonImage(r, i) /\ Contains(resp[r].detail, MustBeImage(kind[r], i))

\* C2 (as stated): a forwarding request with valid content types whose upstream
\* call times out, in the connect phase or while waiting for the reply, is
\* answered with status 504.
C2_AnyTimeoutIs504 ==
    \A r \in Requests :
        (Done(r) /\ Forward(r) /\ ValidFiles(r)
            /\ up[r].exc \in {"ConnectTimeout", "ReadTimeout"}) =>
            resp[r].status = 504

\* C2 (amended): with valid content types, a timeout while waiting for the reply
\* is answered with 504, and a timeout while establishing the connection is
\* answered with 503.
C2_ReadTimeoutIs504 ==
    \A r \in Requests :
        (Done(r) /\ Forward(r) /\ ValidFiles(r)) =>
            /\ up[r].exc = "ReadTimeout" => resp[r].status = 504
            /\ up[r].exc = "ConnectTimeout" => resp[r].status = 503

C2_Witness ==
    \E r \in Requests :
        /\ Done(r) /\ Forward(r) /\ ValidFiles(r)
        /\ up[r].exc = "ReadTimeout" /\ resp[r].status = 504

\* C3: with valid content types and an upstream 2xx reply whose body is
\* JSON-decodable (object, array or scalar), the relay answers 200 with a body
\* equal to the decoded upstream body.
C3_SuccessBodyVerbatim ==
    \A r \in Requests :
        (Done(r) /\ Forward(r) /\ ValidFiles(r) /\ GotReply(r)
            /\ Is2xx(up[r].status) /\ JsonDecodable(up[r].text)) =>
            /\ resp[r].status = 200
            /\ resp[r].body = JsonDecode(up[r].text)
            /\ resp[r].detail = <<>>

\* C4 (as stated): with valid content types and an upstream reply of any non-2xx
\* status, the relay's status equals the upstream's and the message contains the
\* upstream body text.
C4_Non2xxPassedThrough ==
    \A r \in Requests :
        (Done(r) /\ Forward(r) /\ ValidFiles(r) /\ GotReply(r)
            /\ ~Is2xx(up[r].status)) =>
            /\ resp[r].status = up[r].status
            /\ Contains(resp[r].detail, up[r].text)

\* C4 (amended): with valid content types and an upstream reply of status 4xx or
\* 5xx, the relay's status equals the upstream's and the message contains the
\* upstream body text.
C4_ErrorStatusPassedThrough ==
    \A r \in Requests :
        (Done(r) /\ Forward(r) /\ ValidFiles(r) /\ GotReply(r)
            /\ 400 <= up[r].status /\ up[r].status < 600) =>
            /\ resp[r].status = up[r].status
            /\ Contains(resp[r].detail, up[r].text)

C4_Witness ==
    \E r \in Requests :
        /\ Done(r) /\ Forward(r) /\ ValidFiles(r) /\ GotReply(r)
        /\ up[r].status = 404 /\ resp[r].status = 404
        /\ Contains(resp[r].detail, BodyNoField)

\* C5: when the connection to the upstream cannot be established, a forwarding
\* request with valid content types is answered with 503 and Health Check with
\* 200 and colab_status "disconnected".
C5_UnreachableIs503 ==
    \A r \in Requests :
        (Done(r) /\ IsInstance(up[r].exc, "ConnectionError")) =>
            /\ (Forward(r) /\ ValidFiles(r)) => resp[r].status = 503
            /\ kind[r] = "health" =>
                  resp[r].status = 200 /\ resp[r].colab_status = "disconnected"

C5_Witness ==
    /\ \E r \in Requests :
          /\ Done(r) /\ Forward(r) /\ up[r].exc = "ConnectionError"
          /\ resp[r].status = 503
    /\ \E r \in Requests :
          /\ Done(r) /\ kind[r] = "health" /\ up[r].exc = "ConnectionError"
          /\ resp[r].colab_status = "disconnected"

\* C6: whatever the outcome of the upstream probe, Health Check answers 200 with
\* local_status "healthy" and colab_status "connected" or "disconnected".
C6_HealthNeverFails ==
    \A r \in Requests :
        (Done(r) /\ kind[r] = "health") =>
            /\ resp[r].status = 200
            /\ resp[r].local_status = "healthy"
            /\ resp[r].colab_status \in {"connected", "disconnected"}

C6_Witness ==
    \E r \in Requests :
        /\ Done(r) /\ kind[r] = "health" /\ GotReply(r)
        /\ ~JsonDecodable(up[r].text) /\ resp[r].status = 200

\* C7: a request blocked in its upstream call does not prevent another request
\* that has arrived from starting its handler.
C7_BlockedDoesNotBlockOthers ==
    \A a, b \in Requests :
        (a # b /\ pc[a] = "upstream" /\ pc[b] = "queued") => ENABLED Begin(b)

\* C8: each request causes at most one upstream call, Info causes none, and a
\* request answered after an upstream failure made exactly one call.
C8_NoRetries ==
    \A r \in Requests :
        /\ calls[r] <= 1
        /\ kind[r] = "root" => calls[r] = 0
        /\ (Done(r) /\ up[r] # NoOut) => calls[r] = 1

C8_Witness ==
    \E r \in Requests :
        /\ Done(r) /\ Forward(r) /\ up[r].exc = "ConnectionError" /\ calls[r] = 1

\* C9: a forwarding request with a declared non-image content type never reads
\* a payload and never issues an upstream call.
C9_ValidationFirst ==
    \A r \in Requests :
        (Forward(r) /\ HasNonImage(r)) => (reads[r] = 0 /\ calls[r] = 0)

C9_Witness ==
    \E r \in Requests :
        /\ Done(r) /\ kind[r] = "cosine"
        /\ files[r] = <<CT_png, CT_text>>
        /\ reads[r] = 0 /\ calls[r] = 0

\* C10: Health Check reports "connected" exactly when the probe returned a reply
\* with a JSON-decodable body, whatever its status code, with the decoded body as
\* colab_details; otherwise it reports "disconnected".
C10_ConnectedIffDecodable ==
    \A r \in Requests :
        (Done(r) /\ kind[r] = "health") =>
            LET ok == GotReply(r) /\ JsonDecodable(up[r].text)
            IN  /\ resp[r].colab_status = "connected" <=> ok
                /\ resp[r].colab_status = "disconnected" <=> ~ok
                /\ ok => resp[r].body = JsonDecode(up[r].text)

C10_Witness ==
    \E r \in Requests :
        /\ Done(r) /\ kind[r] = "health" /\ GotReply(r)
        /\ up[r].status = 404 /\ up[r].text = BodyNoField
        /\ resp[r].colab_status = "connected"
        /\ resp[r].body = JsonDecode(BodyNoField)

====
